---- MODULE Spec2Model ----
(***************************************************************************)
(* Model of server/index.mjs: the JSON-file store, the calorie helpers,    *)
(* the extraction of a JSON object from the provider's text, and the       *)
(* POST /api/generate-weekly-menu handler with its provider call and its   *)
(* fire-and-forget mail send.                                              *)
(*                                                                         *)
(* JavaScript values are tagged records (field t is the typeof/shape), so  *)
(* that typeof, Array.isArray and truthiness tests are computed as the     *)
(* code computes them.  A text is a sequence of lexemes (fence markers,    *)
(* structural characters, string and number literals, prose words,         *)
(* whitespace); indexOf, lastIndexOf and slice work on lexeme positions.   *)
(***************************************************************************)
EXTENDS Integers, Sequences, FiniteSets, TLC

\* ------------------------------------------------------------------ bounds

\* Number of HTTP requests the model lets the server receive.
MaxReqs == 2

\* Largest value Date.now() reaches in the model (the clock starts at 0).
MaxTime == 1

\* Largest number of menus in the store, and largest version among them, when
\* the store's functions are called on their own.
MaxMenus == 3
MaxStoredVersion == 3

\* Largest number of lexemes in the generated texts extractJsonFromText is
\* called with on its own.
MaxTextLen == 3

Reqs == 1 .. MaxReqs

\* ------------------------------------------------------- JavaScript values

Undef == [t |-> "undefined"]
Null == [t |-> "null"]
Num(n) == [t |-> "number", n |-> n]
Str(s) == [t |-> "string", s |-> s]
Arr(a) == [t |-> "array", a |-> a]
Obj(o) == [t |-> "object", o |-> o]

Bool(b) == [t |-> "boolean", b |-> b]
NaN == [t |-> "number", nan |-> TRUE]
IsNaN(v) == v.t = "number" /\ "nan" \in DOMAIN v

\* !v
Falsy(v) ==
    \/ v.t \in {"undefined", "null"}
    \/ (v.t = "number" /\ (IsNaN(v) \/ v.n = 0))
    \/ (v.t = "string" /\ v.s = "")
    \/ (v.t = "boolean" /\ ~v.b)

\* v.k for a value that is not null or undefined
Get(v, k) == IF v.t = "object" /\ k \in DOMAIN v.o THEN v.o[k] ELSE Undef

\* ------------------------------------------------------------------ lexemes

P(c) == [k |-> "punct", s |-> c, n |-> 0]
S(s) == [k |-> "string", s |-> s, n |-> 0]
N(n) == [k |-> "number", s |-> "", n |-> n]
W(s) == [k |-> "word", s |-> s, n |-> 0]
F(s) == [k |-> "fence", s |-> s, n |-> 0]
WS == [k |-> "space", s |-> " ", n |-> 0]

\* ---------------------------------------------------------------- JSON.parse

ParseFail == [ok |-> FALSE]
ParseOk(v, i) == [ok |-> TRUE, v |-> v, i |-> i]

RECURSIVE ParseValue(_, _)
RECURSIVE ParseElements(_, _, _)
RECURSIVE ParseMembers(_, _, _)

\* One JSON value starting at lexeme i of t; i is the place after it.
ParseValue(t, i) ==
    IF i > Len(t) THEN ParseFail
    ELSE IF t[i].k = "number" THEN ParseOk(Num(t[i].n), i + 1)
    ELSE IF t[i].k = "string" THEN ParseOk(Str(t[i].s), i + 1)
    ELSE IF t[i] = P("[")
        THEN IF i + 1 <= Len(t) /\ t[i + 1] = P("]")
                THEN ParseOk(Arr(<<>>), i + 2)
                ELSE ParseElements(t, i + 1, <<>>)
    ELSE IF t[i] = P("{")
        THEN IF i + 1 <= Len(t) /\ t[i + 1] = P("}")
                THEN ParseOk(Obj(<<>>), i + 2)
                ELSE ParseMembers(t, i + 1, <<>>)
    ELSE ParseFail

\* The elements of an array after its "[", acc the elements read so far.
ParseElements(t, i, acc) ==
    LET r == ParseValue(t, i) IN
    IF ~r.ok \/ r.i > Len(t) THEN ParseFail
    ELSE IF t[r.i] = P(",") THEN ParseElements(t, r.i + 1, Append(acc, r.v))
    ELSE IF t[r.i] = P("]") THEN ParseOk(Arr(Append(acc, r.v)), r.i + 1)
    ELSE ParseFail

\* The members of an object after its "{"; a repeated key keeps the last value.
ParseMembers(t, i, acc) ==
    IF i + 1 > Len(t) \/ t[i].k # "string" \/ t[i + 1] # P(":") THEN ParseFail
    ELSE LET r == ParseValue(t, i + 2) IN
         IF ~r.ok \/ r.i > Len(t) THEN ParseFail
         ELSE LET acc2 == (t[i].s :> r.v) @@ acc IN
              IF t[r.i] = P(",") THEN ParseMembers(t, r.i + 1, acc2)
              ELSE IF t[r.i] = P("}") THEN ParseOk(Obj(acc2), r.i + 1)
              ELSE ParseFail

\* The lexemes of t that are not whitespace, in order.
RECURSIVE NoSpace(_)
NoSpace(t) ==
    IF t = <<>> THEN <<>>
    ELSE IF Head(t).k = "space" THEN NoSpace(Tail(t))
    ELSE <<Head(t)>> \o NoSpace(Tail(t))

\* JSON.parse(t): the whole text must be exactly one value.
JSONparse(t) ==
    LET u == NoSpace(t)
        r == ParseValue(u, 1)
    IN IF r.ok /\ r.i = Len(u) + 1 THEN [ok |-> TRUE, value |-> r.v]
       ELSE [ok |-> FALSE, error |-> "SyntaxError"]

\* ------------------------------------------------------ extractJsonFromText

\* The two replace() calls: every fence marker, with or without json, is removed.
RECURSIVE RemoveFences(_)
RemoveFences(t) ==
    IF t = <<>> THEN <<>>
    ELSE IF Head(t).k = "fence" THEN RemoveFences(Tail(t))
    ELSE <<Head(t)>> \o RemoveFences(Tail(t))

\* .trim()
RECURSIVE TrimLeft(_)
TrimLeft(t) == IF t # <<>> /\ Head(t).k = "space" THEN TrimLeft(Tail(t)) ELSE t

RECURSIVE TrimRight(_)
TrimRight(t) ==
    IF t # <<>> /\ t[Len(t)].k = "space" THEN TrimRight(SubSeq(t, 1, Len(t) - 1)) ELSE t

Trim(t) == TrimRight(TrimLeft(t))

\* t.indexOf(c) and t.lastIndexOf(c), counted from 0, -1 when absent
IndexOf(t, c) ==
    LET hits == {i \in 1 .. Len(t) : t[i] = c}
    IN IF hits = {} THEN -1 ELSE (CHOOSE i \in hits : \A j \in hits : i <= j) - 1

LastIndexOf(t, c) ==
    LET hits == {i \in 1 .. Len(t) : t[i] = c}
    IN IF hits = {} THEN -1 ELSE (CHOOSE i \in hits : \A j \in hits : i >= j) - 1

\* t.slice(from, to), positions counted from 0
Slice(t, from, to) == SubSeq(t, from + 1, to)

\* Variant: the object is taken to end at the first closing brace.
extractJsonFromTextFirstClose(text) ==
    LET cleaned == Trim(RemoveFences(text))
        first == IndexOf(cleaned, P("{"))
        last == IndexOf(cleaned, P("}"))
    IN IF text = <<>>
          THEN [ok |-> FALSE, error |-> "AI response is empty or not a string"]
       ELSE IF first = -1 \/ last = -1 \/ last <= first
          THEN [ok |-> FALSE, error |-> "Could not locate JSON object in AI response"]
       ELSE JSONparse(Slice(cleaned, first, last + 1))

extractJsonFromText(text) ==
    LET cleaned == Trim(RemoveFences(text))
        first == IndexOf(cleaned, P("{"))
        last == LastIndexOf(cleaned, P("}"))
    IN IF text = <<>>
          THEN [ok |-> FALSE, error |-> "AI response is empty or not a string"]
       ELSE IF first = -1 \/ last = -1 \/ last <= first
          THEN [ok |-> FALSE, error |-> "Could not locate JSON object in AI response"]
       ELSE JSONparse(Slice(cleaned, first, last + 1))

\* ---------------------------------------------------------- calorie helpers

\* The characters of the strings the model passes as an age range, a height
\* or a weight.
Chars(s) ==
    CASE s = "18-24" -> <<"1", "8", "-", "2", "4">>
      [] s = "25-34" -> <<"2", "5", "-", "3", "4">>
      [] s = "35-44" -> <<"3", "5", "-", "4", "4">>
      [] s = "45-54" -> <<"4", "5", "-", "5", "4">>
      [] s = "55-64" -> <<"5", "5", "-", "6", "4">>
      [] s = "65+" -> <<"6", "5", "+">>
      [] s = "65-+" -> <<"6", "5", "-", "+">>
      [] s = "n/a" -> <<"n", "/", "a">>
      [] s = "abc" -> <<"a", "b", "c">>
      [] s = "180" -> <<"1", "8", "0">>
      [] OTHER -> <<>>

Digit(c) ==
    CASE c = "0" -> 0 [] c = "1" -> 1 [] c = "2" -> 2 [] c = "3" -> 3 [] c = "4" -> 4
      [] c = "5" -> 5 [] c = "6" -> 6 [] c = "7" -> 7 [] c = "8" -> 8 [] c = "9" -> 9
      [] OTHER -> -1

\* The value of a run of decimal digits.
RECURSIVE DigitsValue(_)
DigitsValue(cs) ==
    IF cs = <<>> THEN 0 ELSE 10 * DigitsValue(SubSeq(cs, 1, Len(cs) - 1)) + Digit(cs[Len(cs)])

\* Number(s) for a string given by its characters: "" is 0, an optionally
\* signed run of digits is its value, anything else is NaN.
StringToNumber(cs) ==
    LET signed == cs # <<>> /\ cs[1] \in {"+", "-"}
        ds == IF signed THEN Tail(cs) ELSE cs
    IN IF cs = <<>> THEN Num(0)
       ELSE IF ds = <<>> \/ \E i \in 1 .. Len(ds) : Digit(ds[i]) = -1 THEN NaN
       ELSE IF signed /\ cs[1] = "-" THEN Num(0 - DigitsValue(ds))
       ELSE Num(DigitsValue(ds))

\* Number(v)
ToNumber(v) ==
    CASE v.t = "number" -> v
      [] v.t = "null" -> Num(0)
      [] v.t = "string" -> StringToNumber(Chars(v.s))
      [] OTHER -> NaN

\* cs.split(sep): the pieces of cs between the occurrences of sep
RECURSIVE Split(_, _)
Split(cs, sep) ==
    LET hits == {i \in 1 .. Len(cs) : cs[i] = sep}
        i == CHOOSE h \in hits : \A g \in hits : h <= g
    IN IF hits = {} THEN <<cs>>
       ELSE <<SubSeq(cs, 1, i - 1)>> \o Split(SubSeq(cs, i + 1, Len(cs)), sep)

\* Variant: a bucket a-b resolves to its lower bound a.
approximateAgeLowerBound(ageRange) ==
    IF Falsy(ageRange) THEN [threw |-> FALSE, value |-> Num(30)]
    ELSE IF ageRange.t # "string" THEN [threw |-> TRUE]
    ELSE LET cs == Chars(ageRange.s)
             f == StringToNumber(Split(cs, "-")[1])
         IN IF (\E i \in 1 .. Len(cs) : cs[i] = "-") /\ ~IsNaN(f)
               THEN [threw |-> FALSE, value |-> f]
            ELSE [threw |-> FALSE, value |-> Num(30)]

\* approximateAge(ageRange): threw is TRUE when the call raises a TypeError
\* (ageRange is truthy and has no includes method).
approximateAge(ageRange) ==
    IF Falsy(ageRange) THEN [threw |-> FALSE, value |-> Num(30)]
    ELSE IF ageRange.t # "string" THEN [threw |-> TRUE]
    ELSE LET cs == Chars(ageRange.s)
             parts == Split(cs, "-")
             from == parts[1]
             to == parts[2]
             f == StringToNumber(from)
             t == StringToNumber(to)
         IN IF \E i \in 1 .. Len(cs) : cs[i] = "-"
               THEN IF to = <<"+">>
                       THEN [threw |-> FALSE,
                             value |-> IF IsNaN(f) THEN NaN ELSE Num(f.n + 5)]
                    ELSE IF ~IsNaN(f) /\ ~IsNaN(t)
                       THEN [threw |-> FALSE, value |-> Num((f.n + t.n + 1) \div 2)]
                    ELSE [threw |-> FALSE, value |-> Num(30)]
            ELSE [threw |-> FALSE, value |-> Num(30)]

\* Variant: every level gets the default factor.
activityFactorDefaultOnly(level) == 1400

\* activityFactor(level), in thousandths
activityFactor(level) ==
    CASE level = Str("Sedentary - 0 hours/week") -> 1200
      [] level = Str("Light - 0-1 hour/week") -> 1375
      [] level = Str("Moderate - 1-2 hours/week") -> 1550
      [] level = Str("Active - 2-4 hours/week") -> 1725
      [] level = Str("Very Active - 4+ hours/week") -> 1900
      [] OTHER -> 1400

\* Variant: the branch for the other genders is missing, they get the Female
\* formula.
bmr4MaleOrFemale(gender, weight, height, age) ==
    IF gender = Str("Male") THEN 40 * weight + 25 * height - 20 * age + 20
    ELSE 40 * weight + 25 * height - 20 * age - 644

\* The basal rate bmr of calculateDailyCalories, in quarters, for the gender
\* after its default and integer weight, height and age.
bmr4(gender, weight, height, age) ==
    LET base4 == 40 * weight + 25 * height - 20 * age
        male4 == base4 + 20
        female4 == base4 - 644
    IN IF gender = Str("Male") THEN male4
       ELSE IF gender = Str("Female") THEN female4
       ELSE (male4 + female4) \div 2

\* calculateDailyCalories(profile).  The basal rate is kept in quarters, the
\* activity factor in fortieths (every factor is a multiple of 0.025) and the
\* goal factor in twentieths, so the product is exact and stays within 32
\* bits; Math.round rounds a half upwards.
calculateDailyCalories(profile) ==
    LET a == approximateAge(Get(profile, "ageRange"))
        w == Get(profile, "weightKg")
        h == Get(profile, "heightCm")
        g == Get(profile, "gender")
        weight == ToNumber(IF Falsy(w) THEN Num(70) ELSE w)
        height == ToNumber(IF Falsy(h) THEN Num(170) ELSE h)
        gender == IF Falsy(g) THEN Str("Other") ELSE g
        age == a.value
        bmr == bmr4(gender, weight.n, height.n, age.n)
        goal100 == IF Get(profile, "goal") = Str("Lose weight") THEN 80
                   ELSE IF Get(profile, "goal") = Str("Gain weight") THEN 115
                   ELSE 100
        num == bmr * (activityFactor(Get(profile, "activityLevel")) \div 25)
                    * (goal100 \div 5)
    IN IF a.threw THEN [threw |-> TRUE]
       ELSE IF IsNaN(age) \/ IsNaN(weight) \/ IsNaN(height)
          THEN [threw |-> FALSE, value |-> NaN]
       ELSE [threw |-> FALSE, value |-> Num((2 * num + 3200) \div 6400)]

\* ------------------------------------------------------------ JSON database

\* db.json: absent, readable ("ok") or unreadable (not valid JSON, no access).
DbFile(users, menus) == [state |-> "ok", users |-> users, menus |-> menus]
NoDbFile == [state |-> "absent", users |-> <<>>, menus |-> <<>>]

\* What readDb() returns.
readDb(file) ==
    IF file.state = "ok" THEN [users |-> file.users, menus |-> file.menus]
    ELSE [users |-> <<>>, menus |-> <<>>]

\* db.json after a call of readDb(): an absent file is created empty.
readDbFile(file) == IF file.state = "absent" THEN DbFile(<<>>, <<>>) ELSE file

\* db.json after writeDb(db).
writeDb(db) == DbFile(db.users, db.menus)

\* findUser(email): the first user with that email, or null.
findUser(file, email) ==
    LET users == readDb(file).users
        hits == {i \in 1 .. Len(users) : users[i].email = email}
    IN IF hits = {} THEN Null
       ELSE users[CHOOSE i \in hits : \A j \in hits : i <= j]

\* Variant: the reducer does not look at the email of a menu.
RECURSIVE MaxVersionAnyUser(_, _, _)
MaxVersionAnyUser(menus, email, max) ==
    IF menus = <<>> THEN max
    ELSE MaxVersionAnyUser(Tail(menus), email,
                           IF Head(menus).version > max THEN Head(menus).version ELSE max)

\* Variant: the user is always pushed, whether or not the email is stored.
saveUserAlwaysPush(file, user) ==
    LET db == readDb(file)
    IN writeDb([users |-> Append(db.users, user), menus |-> db.menus])

\* db.json after saveUser(user): the first record with the user's email is
\* replaced, or the user is pushed when there is none.
saveUser(file, user) ==
    LET db == readDb(file)
        hits == {i \in 1 .. Len(db.users) : db.users[i].email = user.email}
        idx == CHOOSE i \in hits : \A j \in hits : i <= j
    IN writeDb([users |-> IF hits = {} THEN Append(db.users, user)
                          ELSE [db.users EXCEPT ![idx] = user],
                menus |-> db.menus])

\* The larger of max and the version of m, as the reducer of getNextMenuVersion.
RECURSIVE MaxVersion(_, _, _)
MaxVersion(menus, email, max) ==
    IF menus = <<>> THEN max
    ELSE MaxVersion(Tail(menus), email,
                    IF Head(menus).email = email /\ Head(menus).version > max
                    THEN Head(menus).version ELSE max)

\* Variant: the largest stored version itself, without the increment.
getNextMenuVersionNoIncrement(file, email) == MaxVersion(readDb(file).menus, email, 0)

getNextMenuVersion(file, email) == MaxVersion(readDb(file).menus, email, 0) + 1

\* db.json after saveMenu(menu).
saveMenu(file, menu) ==
    LET db == readDb(file)
    IN writeDb([users |-> db.users, menus |-> Append(db.menus, menu)])

\* ------------------------------------------------------------ fallback menu

Meal(type, name, description, calories) ==
    Obj([type |-> Str(type), name |-> Str(name),
         description |-> Str(description), calories |-> Num(calories)])

Item(product, quantity) == Obj([product |-> Str(product), quantity |-> Str(quantity)])

Day(dayIndex, label, meals, shoppingItems) ==
    Obj([dayIndex |-> Num(dayIndex), label |-> Str(label),
         meals |-> Arr(meals), shoppingItems |-> Arr(shoppingItems)])

FallbackDays ==
    Arr(<<
        Day(1, "Day 1",
            <<Meal("Breakfast", "Oatmeal with berries",
                   "Wholegrain oats with milk and frozen berries.", 400),
              Meal("Lunch", "Grilled chicken salad",
                   "Chicken breast with mixed salad and olive oil.", 550),
              Meal("Dinner", "Salmon with vegetables",
                   "Baked salmon with broccoli and potatoes.", 650)>>,
            <<Item("Oats", "500 g"), Item("Milk", "1 L"),
              Item("Chicken breast", "300 g"), Item("Mixed salad", "1 pack"),
              Item("Salmon fillet", "300 g"), Item("Broccoli", "400 g")>>),
        Day(2, "Day 2",
            <<Meal("Breakfast", "Greek yogurt with granola",
                   "Low-fat yogurt with granola and banana.", 400),
              Meal("Lunch", "Turkey wrap with veggies",
                   "Tortilla wrap with turkey and vegetables.", 550),
              Meal("Dinner", "Stir-fried tofu with rice",
                   "Tofu with vegetables and brown rice.", 650)>>,
            <<Item("Greek yogurt", "500 g"), Item("Granola", "200 g"),
              Item("Banana", "3 pcs"), Item("Turkey slices", "200 g"),
              Item("Tortillas", "4 pcs"), Item("Tofu", "200 g"),
              Item("Brown rice", "500 g")>>)
    >>)

FallbackWarning ==
    "Using fallback menu because Gemini API request failed. Check your GEMINI_API_KEY, model name and quota."

\* ------------------------------------------------------------------- inputs

UserA == "a@example.com"
UserB == "b@example.com"

\* The record POST /api/auth/register stores for a new user.
NewUser(email, passwordHash, createdAt) ==
    [email |-> email, passwordHash |-> passwordHash, profile |-> Null,
     createdAt |-> createdAt]

ProfileA ==
    Obj([goal |-> Str("Lose weight"), ageRange |-> Str("25-34"), gender |-> Str("Male"),
         heightCm |-> Num(180), weightKg |-> Num(80),
         activityLevel |-> Str("Moderate - 1-2 hours/week")])

\* A profile whose ageRange is a number: approximateAge raises a TypeError.
ProfileNumericAge ==
    Obj([goal |-> Str("Gain weight"), ageRange |-> Num(30), gender |-> Str("Female"),
         heightCm |-> Num(165), weightKg |-> Num(60),
         activityLevel |-> Str("Light - 0-1 hour/week")])

\* Request bodies of POST /api/generate-weekly-menu; "" and undefined are
\* a missing email and a missing profile.
GenerateBodies ==
    {[email |-> UserA, profile |-> ProfileA],
     [email |-> UserA, profile |-> ProfileNumericAge],
     [email |-> UserA, profile |-> Undef],
     [email |-> UserB, profile |-> ProfileA],
     [email |-> "", profile |-> ProfileA]}

\* The lexemes of a JSON object made of the given members.
ObjectText(members) == <<P("{")>> \o members \o <<P("}")>>
VersionMember(v) == <<S("version"), P(":"), N(v)>>
DaysMember(days) == <<S("days"), P(":")>> \o days

\* The 'days' values of the provider replies: an empty array, an array of one
\* day without meals, and a number.
EmptyDaysText == <<P("["), P("]")>>
OneDayText ==
    <<P("["), P("{"), S("dayIndex"), P(":"), N(1), P(","), S("label"), P(":"),
      S("Monday"), P("}"), P("]")>>

\* The version numbers the provider replies carry: the version of a user's
\* first prompt, which a later reply repeats.
ProviderVersions == {1}

\* What generateContent() returns as response.text.
ProviderTexts ==
    {<<>>,
     <<W("Sorry,"), WS, W("no"), WS, W("menu.")>>,
     <<P("}"), WS, W("then"), WS, P("{")>>,
     <<W("prefix"), WS, P("{"), S("a"), P(":"), N(1), P("}"), WS, W("suffix"), WS,
       P("{"), S("b"), P(":"), N(2), P("}")>>,
     ObjectText(VersionMember(1) \o <<P(",")>> \o DaysMember(<<N(5)>>)),
     <<F("fence json"), WS>> \o ObjectText(DaysMember(EmptyDaysText)) \o <<WS, F("fence")>>}
    \cup {ObjectText(VersionMember(v) \o <<P(",")>> \o DaysMember(OneDayText)) :
            v \in ProviderVersions}

\* How the awaited generateContent() call settles.
ProviderOutcomes ==
    {[kind |-> "reject", text |-> <<>>]}
    \cup {[kind |-> "resolve", text |-> t] : t \in ProviderTexts}

\* -------------------------------------------------------------------- state

VARIABLES
    ai,        \* whether GEMINI_API_KEY is set (ai is not null)
    mailer,    \* whether SMTP is configured (mailer is not null)
    dbFile,    \* db.json
    now,       \* the last value Date.now() returned
    pc,        \* where each handler is: idle, awaitAI (at its await) or done
    req,       \* each request's body
    loc,       \* the handler's dailyCalories and version while it awaits the provider
    caught,    \* whether the handler's inner catch ran (aiErr was caught)
    menu,      \* the menu record the handler assembled
    response,  \* the response sent: status 0 is none yet
    mail,      \* the mail send the handler started
    call,      \* the helper called on its own, outside a request, and its arguments
    result     \* what that call returned

vars == <<ai, mailer, dbFile, now, pc, req, loc, caught, menu, response, mail,
          call, result>>

NoBody == [email |-> "", profile |-> Undef]
NoLocals == [set |-> FALSE]
NoMenu == [none |-> TRUE]
NoResponse == [status |-> 0]
NoMail == [state |-> "none"]
NoCall == [fn |-> "none"]
NoResult == [none |-> TRUE]

Init ==
    /\ ai \in BOOLEAN
    /\ mailer \in BOOLEAN
    /\ dbFile \in {NoDbFile, DbFile(<<NewUser(UserA, "bcrypt", 0)>>, <<>>)}
    /\ now = 0
    /\ pc = [r \in Reqs |-> "idle"]
    /\ req = [r \in Reqs |-> NoBody]
    /\ loc = [r \in Reqs |-> NoLocals]
    /\ caught = [r \in Reqs |-> FALSE]
    /\ menu = [r \in Reqs |-> NoMenu]
    /\ response = [r \in Reqs |-> NoResponse]
    /\ mail = [r \in Reqs |-> NoMail]
    /\ call = NoCall
    /\ result = NoResult

\* ------------------------------------------- POST /api/generate-weekly-menu

\* res.status(status).json({ error })
ErrorReply(status, error) == [status |-> status, json |-> [error |-> error]]

\* Variant: the check that the user exists is left out.
PreconditionReplyNoUserCheck(file, body) ==
    IF body.email = "" \/ Falsy(body.profile)
       THEN ErrorReply(400, "Email and profile are required.")
    ELSE NoResponse

\* The precondition checks: the reply they send, or none when they pass.
PreconditionReply(file, body) ==
    IF body.email = "" \/ Falsy(body.profile)
       THEN ErrorReply(400, "Email and profile are required.")
    ELSE IF findUser(file, body.email) = Null
       THEN ErrorReply(404, "User not found.")
    ELSE NoResponse

\* Variant: the handler reserves its version by saving a record without days
\* as soon as it has computed the version.
HandleGenerateReservesVersion(r, body) ==
    LET early == PreconditionReply(dbFile, body)
        cal == calculateDailyCalories(body.profile)
        version == getNextMenuVersion(readDbFile(dbFile), body.email)
        reserved == [email |-> body.email, version |-> version, dailyCalories |-> Num(0),
                     days |-> Arr(<<>>), generatedAt |-> now]
        reply(resp) ==
            /\ pc' = [pc EXCEPT ![r] = "done"]
            /\ response' = [response EXCEPT ![r] = resp]
            /\ loc' = loc
    IN /\ pc[r] = "idle"
       /\ req' = [req EXCEPT ![r] = body]
       /\ dbFile' = IF body.email = "" \/ Falsy(body.profile) THEN dbFile
                    ELSE IF early # NoResponse \/ cal.threw THEN readDbFile(dbFile)
                    ELSE saveMenu(dbFile, reserved)
       /\ IF early # NoResponse THEN reply(early)
          ELSE IF cal.threw \/ ~ai
             THEN reply(ErrorReply(500, "Server error generating weekly menu."))
          ELSE /\ pc' = [pc EXCEPT ![r] = "awaitAI"]
               /\ loc' = [loc EXCEPT ![r] = [set |-> TRUE, dailyCalories |-> cal.value,
                                             version |-> version]]
               /\ response' = response
       /\ UNCHANGED <<ai, mailer, now, caught, menu, mail, call, result>>

\* Variant: the handler stores the profile of the request in the user's record.
HandleGenerateSavesProfile(r, body) ==
    LET early == PreconditionReply(dbFile, body)
        cal == calculateDailyCalories(body.profile)
        version == getNextMenuVersion(readDbFile(dbFile), body.email)
        user == findUser(dbFile, body.email)
        reply(resp) ==
            /\ pc' = [pc EXCEPT ![r] = "done"]
            /\ response' = [response EXCEPT ![r] = resp]
            /\ loc' = loc
    IN /\ pc[r] = "idle"
       /\ req' = [req EXCEPT ![r] = body]
       /\ dbFile' = IF body.email = "" \/ Falsy(body.profile) THEN dbFile
                    ELSE IF early # NoResponse THEN readDbFile(dbFile)
                    ELSE saveUser(dbFile, [user EXCEPT !.profile = body.profile])
       /\ IF early # NoResponse THEN reply(early)
          ELSE IF cal.threw \/ ~ai
             THEN reply(ErrorReply(500, "Server error generating weekly menu."))
          ELSE /\ pc' = [pc EXCEPT ![r] = "awaitAI"]
               /\ loc' = [loc EXCEPT ![r] = [set |-> TRUE, dailyCalories |-> cal.value,
                                             version |-> version]]
               /\ response' = response
       /\ UNCHANGED <<ai, mailer, now, caught, menu, mail, call, result>>

\* The handler from the request to its first await: the precondition checks,
\* the calorie target, the next version, the provider check.  The prompt it
\* builds goes to the provider only, whose reply is unconstrained.
HandleGenerate(r, body) ==
    LET early == PreconditionReply(dbFile, body)
        cal == calculateDailyCalories(body.profile)
        version == getNextMenuVersion(readDbFile(dbFile), body.email)
        reply(resp) ==
            /\ pc' = [pc EXCEPT ![r] = "done"]
            /\ response' = [response EXCEPT ![r] = resp]
            /\ loc' = loc
    IN /\ pc[r] = "idle"
       /\ req' = [req EXCEPT ![r] = body]
       /\ dbFile' = IF body.email = "" \/ Falsy(body.profile) THEN dbFile
                    ELSE readDbFile(dbFile)
       /\ IF early # NoResponse THEN reply(early)
          ELSE IF cal.threw \/ ~ai
             THEN reply(ErrorReply(500, "Server error generating weekly menu."))
          ELSE /\ pc' = [pc EXCEPT ![r] = "awaitAI"]
               /\ loc' = [loc EXCEPT ![r] = [set |-> TRUE, dailyCalories |-> cal.value,
                                             version |-> version]]
               /\ response' = response
       /\ UNCHANGED <<ai, mailer, now, caught, menu, mail, call, result>>

\* Variant: a request of a user waits while another request of that user is
\* between its version read and its save.
GenerateRequestSerialised(r, body) ==
    /\ IF r = 1 THEN TRUE ELSE pc[r - 1] # "idle"
    /\ \A q \in Reqs : ~(pc[q] = "awaitAI" /\ req[q].email = body.email)
    /\ HandleGenerate(r, body)

\* A request arrives and its handler runs to its first await.  Requests are
\* numbered in their order of arrival; nothing else orders them.
GenerateRequest(r, body) ==
    /\ IF r = 1 THEN TRUE ELSE pc[r - 1] # "idle"
    /\ HandleGenerate(r, body)

\* The catch branch of the inner try: the fixed days, the sequencer's version.
Fallback(version, error) ==
    [days |-> FallbackDays, finalVersion |-> version, warning |-> FallbackWarning,
     aiErr |-> error]

\* Variant: the Array.isArray check of the parsed days is left out.
GenerationStepNoDaysCheck(outcome, version) ==
    LET parsed == extractJsonFromText(outcome.text)
        v == Get(parsed.value, "version")
    IN IF outcome.kind = "reject" THEN Fallback(version, "generateContent rejected")
       ELSE IF ~parsed.ok THEN Fallback(version, parsed.error)
       ELSE [days |-> Get(parsed.value, "days"),
             finalVersion |-> IF v.t = "number" THEN v.n ELSE version,
             warning |-> "", aiErr |-> ""]

\* Variant: the parsed days are accepted only when there are exactly 7 of them.
GenerationStepRequiresSevenDays(outcome, version) ==
    LET parsed == extractJsonFromText(outcome.text)
        days == Get(parsed.value, "days")
        v == Get(parsed.value, "version")
    IN IF outcome.kind = "reject" THEN Fallback(version, "generateContent rejected")
       ELSE IF ~parsed.ok THEN Fallback(version, parsed.error)
       ELSE IF days.t # "array" \/ Len(days.a) # 7
          THEN Fallback(version, "Parsed JSON has no days array.")
       ELSE [days |-> days, finalVersion |-> IF v.t = "number" THEN v.n ELSE version,
             warning |-> "", aiErr |-> ""]

\* Variant: finalVersion is taken from the parsed payload before its days are
\* checked, so that the catch branch keeps the payload's version.
GenerationStepVersionBeforeDaysCheck(outcome, version) ==
    LET parsed == extractJsonFromText(outcome.text)
        days == Get(parsed.value, "days")
        v == Get(parsed.value, "version")
        finalVersion == IF v.t = "number" THEN v.n ELSE version
    IN IF outcome.kind = "reject" THEN Fallback(version, "generateContent rejected")
       ELSE IF ~parsed.ok THEN Fallback(version, parsed.error)
       ELSE IF days.t # "array"
          THEN Fallback(finalVersion, "Parsed JSON has no days array.")
       ELSE [days |-> days, finalVersion |-> finalVersion, warning |-> "", aiErr |-> ""]

\* The inner try/catch: days, finalVersion and warning ("" is undefined) from
\* the way the provider call settled.
GenerationStep(outcome, version) ==
    LET parsed == extractJsonFromText(outcome.text)
        days == Get(parsed.value, "days")
        v == Get(parsed.value, "version")
    IN IF outcome.kind = "reject" THEN Fallback(version, "generateContent rejected")
       ELSE IF ~parsed.ok THEN Fallback(version, parsed.error)
       ELSE IF days.t # "array" THEN Fallback(version, "Parsed JSON has no days array.")
       ELSE [days |-> days, finalVersion |-> IF v.t = "number" THEN v.n ELSE version,
             warning |-> "", aiErr |-> ""]

\* Variant: the warning field is set whether or not there is a warning.
AssembleMenuAlwaysWarning(email, g, dailyCalories, generatedAt) ==
    [email |-> email, version |-> g.finalVersion, dailyCalories |-> dailyCalories,
     days |-> g.days, generatedAt |-> generatedAt, warning |-> g.warning]

\* const menu = {...}; if (warning) menu.warning = warning
AssembleMenu(email, g, dailyCalories, generatedAt) ==
    LET m == [email |-> email, version |-> g.finalVersion,
              dailyCalories |-> dailyCalories, days |-> g.days,
              generatedAt |-> generatedAt]
    IN IF g.warning # "" THEN m @@ [warning |-> g.warning] ELSE m

\* Variant: the whole record is returned, email included.
ClientMenuKeepsEmail(m) == m

\* const { email: _ignored, ...clientMenu } = menu
ClientMenu(m) == [f \in DOMAIN m \ {"email"} |-> m[f]]

\* Variant: the send is started whether or not a mailer is configured.
StartMailUnconditional(email, m) == [state |-> "pending", to |-> email, menu |-> m]

\* The mail send the handler starts after saveMenu: none without a mailer.
StartMail(email, m) ==
    IF mailer THEN [state |-> "pending", to |-> email, menu |-> m] ELSE NoMail

\* Variant: with a mailer the handler awaits the mail send before it responds.
ProviderSettlesAwaitsMail(r, outcome, t) ==
    LET g == GenerationStep(outcome, loc[r].version)
        m == AssembleMenu(req[r].email, g, loc[r].dailyCalories, t)
    IN /\ pc[r] = "awaitAI"
       /\ now' = t
       /\ caught' = [caught EXCEPT ![r] = g.aiErr # ""]
       /\ menu' = [menu EXCEPT ![r] = m]
       /\ dbFile' = saveMenu(dbFile, m)
       /\ mail' = [mail EXCEPT ![r] = StartMail(req[r].email, m)]
       /\ response' = IF mailer THEN response
                      ELSE [response EXCEPT ![r] = [status |-> 200, json |-> ClientMenu(m)]]
       /\ pc' = [pc EXCEPT ![r] = IF mailer THEN "awaitMail" ELSE "done"]
       /\ UNCHANGED <<ai, mailer, req, loc, call, result>>

\* The handler from the settling of the provider call to its response; t is
\* what Date.now() returns, the wall clock having moved on by any amount.
ProviderSettles(r, outcome, t) ==
    LET g == GenerationStep(outcome, loc[r].version)
        m == AssembleMenu(req[r].email, g, loc[r].dailyCalories, t)
    IN /\ pc[r] = "awaitAI"
       /\ now' = t
       /\ caught' = [caught EXCEPT ![r] = g.aiErr # ""]
       /\ menu' = [menu EXCEPT ![r] = m]
       /\ dbFile' = saveMenu(dbFile, m)
       /\ mail' = [mail EXCEPT ![r] = StartMail(req[r].email, m)]
       /\ response' = [response EXCEPT ![r] = [status |-> 200, json |-> ClientMenu(m)]]
       /\ pc' = [pc EXCEPT ![r] = "done"]
       /\ UNCHANGED <<ai, mailer, req, loc, call, result>>

\* sendMenuEmail's promise resolves: the send is logged.
MailSent(r) ==
    /\ mail[r].state = "pending"
    /\ mail' = [mail EXCEPT ![r].state = "sent"]
    /\ UNCHANGED <<ai, mailer, dbFile, now, pc, req, loc, caught, menu, response, call,
                   result>>

\* Variant: the mail send is awaited inside the handler's try, so that its
\* failure reaches the outer catch.
MailFailedEscalates(r) ==
    /\ mail[r].state = "pending"
    /\ mail' = [mail EXCEPT ![r].state = "failed"]
    /\ response' = [response EXCEPT
                       ![r] = ErrorReply(500, "Server error generating weekly menu.")]
    /\ UNCHANGED <<ai, mailer, dbFile, now, pc, req, loc, caught, menu, call, result>>

\* sendMenuEmail's promise rejects: the .catch logs the error.
MailFailed(r) ==
    /\ mail[r].state = "pending"
    /\ mail' = [mail EXCEPT ![r].state = "failed"]
    /\ UNCHANGED <<ai, mailer, dbFile, now, pc, req, loc, caught, menu, response, call,
                   result>>

Next ==
    \/ \E r \in Reqs, body \in GenerateBodies : GenerateRequest(r, body)
    \/ \E r \in Reqs, o \in ProviderOutcomes, t \in now .. MaxTime : ProviderSettles(r, o, t)
    \/ \E r \in Reqs : MailSent(r)
    \/ \E r \in Reqs : MailFailed(r)

Spec == Init /\ [][Next]_vars

\* The same server when its requests do not overlap: a request arrives only
\* when no handler is waiting for the provider.
SequentialRequest(r, body) ==
    /\ \A q \in Reqs : pc[q] # "awaitAI"
    /\ GenerateRequest(r, body)

NextSequential ==
    \/ \E r \in Reqs, body \in GenerateBodies : SequentialRequest(r, body)
    \/ \E r \in Reqs, o \in ProviderOutcomes, t \in now .. MaxTime : ProviderSettles(r, o, t)
    \/ \E r \in Reqs : MailSent(r)
    \/ \E r \in Reqs : MailFailed(r)

SpecSequential == Init /\ [][NextSequential]_vars

\* ------------------------------------------------------------------- claims

\* What the claims call things.
Registered(email) == findUser(dbFile, email) # Null
WellFormed(body) == body.email # "" /\ ~Falsy(body.profile)
Answered(r) == response[r].status # 0
Persisted(m) == \E i \in 1 .. Len(dbFile.menus) : dbFile.menus[i] = m
MenusOf(email) == {i \in 1 .. Len(dbFile.menus) : dbFile.menus[i].email = email}
HasWarning(m) == "warning" \in DOMAIN m /\ m.warning # ""

\* The generation step fails on this outcome: the call rejects, the text is
\* empty or holds no locatable or parsable JSON object, or the object has no
\* days array.
GenerationFails(o) ==
    \/ o.kind = "reject"
    \/ ~extractJsonFromText(o.text).ok
    \/ Get(extractJsonFromText(o.text).value, "days").t # "array"

\* C1: with no provider configured (ai is null), a generate-menu request of a
\* registered user with a profile is answered with a menu whose days are the
\* fixed fallback days and whose warning is non-empty, and a menu record with
\* the sequencer's next version is persisted for that user.
C1_UnconfiguredFallsBack ==
    \A r \in Reqs :
        (/\ ~ai
         /\ pc[r] = "done"
         /\ WellFormed(req[r])
         /\ Registered(req[r].email)
         /\ ~calculateDailyCalories(req[r].profile).threw)
        => /\ response[r].status = 200
           /\ response[r].json.days = FallbackDays
           /\ HasWarning(response[r].json)
           /\ \E i \in MenusOf(req[r].email) :
                 dbFile.menus[i].version = response[r].json.version

\* C2: with a provider configured, a step in which the provider call settles
\* with a failing outcome always answers the request with status 200 and a menu
\* whose days are the fallback days and whose warning is non-empty, and appends
\* that menu to the store.
C2_FailuresFallBack ==
    [][\A r \in Reqs, o \in ProviderOutcomes, t \in now .. MaxTime :
          (ProviderSettles(r, o, t) /\ GenerationFails(o))
          => /\ ai
             /\ response'[r].status = 200
             /\ response'[r].json.days = FallbackDays
             /\ HasWarning(response'[r].json)
             /\ Len(dbFile'.menus) = Len(dbFile.menus) + 1
             /\ dbFile'.menus[Len(dbFile'.menus)].email = req[r].email
             /\ ClientMenu(dbFile'.menus[Len(dbFile'.menus)]) = response'[r].json]_vars

\* C2 witness: a request whose inner catch ran has been answered with 200.
C2_Witness ==
    \E r \in Reqs : caught[r] /\ response[r].status = 200 /\ Persisted(menu[r])

\* C3: when requests do not overlap, each persisted menu of a user has a
\* version strictly greater than every version persisted for that user before
\* it, whatever the provider replies.
C3_VersionsStrictlyIncrease ==
    \A i, j \in 1 .. Len(dbFile.menus) :
        (i < j /\ dbFile.menus[i].email = dbFile.menus[j].email)
        => dbFile.menus[i].version < dbFile.menus[j].version

\* Every answered generation kept the sequencer's version: it took the
\* fallback path, or the reply had no version or the version of its prompt.
ProvidersHonest == \A r \in Reqs : menu[r] # NoMenu => menu[r].version = loc[r].version

\* The largest version among the menus of email stored before place i, 0 if none.
PreviousMax(i, email) ==
    LET vs == {dbFile.menus[j].version : j \in {k \in MenusOf(email) : k < i}} \cup {0}
    IN CHOOSE v \in vs : \A w \in vs : w <= v

\* C4: when requests are handled one after another and every generation kept
\* the sequencer's version, each persisted version is the previous maximum of
\* that user plus 1, so the versions of a user strictly increase and a version
\* used by a fallback menu is not given out again.
C4_SequentialVersions ==
    ProvidersHonest =>
        \A i \in 1 .. Len(dbFile.menus) :
            dbFile.menus[i].version = PreviousMax(i, dbFile.menus[i].email) + 1

\* C4 witness: a fallback menu followed by a provider menu of the same user.
C4_Witness ==
    /\ ProvidersHonest
    /\ \E i, j \in 1 .. Len(dbFile.menus) :
          /\ i < j
          /\ dbFile.menus[i].email = dbFile.menus[j].email
          /\ HasWarning(dbFile.menus[i])
          /\ ~HasWarning(dbFile.menus[j])
          /\ dbFile.menus[j].version = dbFile.menus[i].version + 1

\* The requests that ended and were given a registered user and a profile
\* (one whose calorie target can be computed).
Eligible ==
    {r \in Reqs : /\ pc[r] = "done"
                  /\ WellFormed(req[r])
                  /\ Registered(req[r].email)
                  /\ ~calculateDailyCalories(req[r].profile).threw}

\* C5: every request given a registered user and a profile has, by the time
\* it is answered, appended exactly one menu record, and no append is lost:
\* the store holds one record per such request.
C5_OneMenuPerRequest ==
    /\ \A r \in Eligible : response[r].status = 200 /\ Persisted(menu[r])
    /\ Len(dbFile.menus) = Cardinality(Eligible)

\* C6: nothing serialises a request's read of the next version with the save
\* of another request: whenever a request of a user is between its version
\* read and its save, the next request of that user can start, read the next
\* version from the store as it is, and go on to the provider call.
C6_NoSerialisation ==
    \A r, q \in Reqs :
        (/\ pc[q] = "awaitAI"
         /\ pc[r] = "idle"
         /\ IF r = 1 THEN TRUE ELSE pc[r - 1] # "idle")
        => ENABLED (/\ GenerateRequest(r, req[q])
                    /\ pc'[r] = "awaitAI"
                    /\ loc'[r].version = getNextMenuVersion(dbFile, req[q].email))

\* C6 witness: two requests of one user read the same next version and both
\* persisted a menu with it.
C6_Witness ==
    \E r, q \in Reqs :
        /\ r # q
        /\ menu[r] # NoMenu /\ menu[q] # NoMenu
        /\ menu[r].email = menu[q].email
        /\ loc[r].version = loc[q].version
        /\ menu[r].version = loc[r].version /\ menu[q].version = loc[q].version
        /\ \E i, j \in MenusOf(menu[r].email) :
              i # j /\ dbFile.menus[i].version = dbFile.menus[j].version

\* C7: a menu carries a warning exactly when the fallback path built it: a
\* menu made in the catch branch has the fallback days and a non-empty warning,
\* a menu made of the provider's days has no warning field; the same holds of
\* the record in the store and of the view returned.
C7_WarningIffFallback ==
    \A r \in Reqs :
        menu[r] # NoMenu =>
            /\ caught[r] <=> "warning" \in DOMAIN menu[r]
            /\ caught[r] => HasWarning(menu[r]) /\ menu[r].days = FallbackDays
            /\ "warning" \in DOMAIN response[r].json <=> caught[r]
            /\ caught[r] => HasWarning(response[r].json)
            /\ Persisted(menu[r])

\* C7 witness: a menu with a warning and a menu without one have been stored.
C7_Witness ==
    \E r, q \in Reqs :
        /\ caught[r] /\ Persisted(menu[r]) /\ HasWarning(menu[r])
        /\ ~caught[q] /\ menu[q] # NoMenu /\ Persisted(menu[q])

\* C8: a step that answers a request whose email or profile is missing
\* answers 400, one that answers a request whose email is not registered
\* answers 404, and such a step starts nothing: no provider call, no menu, no
\* mail, and the users and menus of the store stay as they were.
C8_PreconditionsFirst ==
    [][\A r \in Reqs :
          (pc[r] = "idle" /\ pc'[r] # "idle"
           /\ (~WellFormed(req'[r]) \/ ~Registered(req'[r].email)))
          => /\ response'[r].status = IF WellFormed(req'[r]) THEN 404 ELSE 400
             /\ pc'[r] = "done"
             /\ loc'[r] = NoLocals
             /\ menu'[r] = NoMenu
             /\ mail' = mail
             /\ readDb(dbFile') = readDb(dbFile)]_vars

\* C8 witness: a 400 and a 404 have been sent.
C8_Witness ==
    \E r, q \in Reqs :
        /\ response[r].status = 400 /\ ~WellFormed(req[r])
        /\ response[q].status = 404 /\ WellFormed(req[q]) /\ ~Registered(req[q].email)

\* C9: the response does not depend on the mail send: whenever a mail send
\* has been started, whether it is pending, sent or has failed, the request
\* has its 200 response with the client view of the persisted menu.
C9_ResponseIgnoresMail ==
    \A r \in Reqs :
        mail[r].state # "none" =>
            /\ response[r] = [status |-> 200, json |-> ClientMenu(menu[r])]
            /\ Persisted(menu[r])

\* C9 witness: one answered request's mail is pending and another one's failed.
C9_Witness ==
    \E r, q \in Reqs :
        /\ mail[r].state = "failed" /\ response[r].status = 200
        /\ mail[q].state = "pending" /\ response[q].status = 200

\* C10: the view returned with status 200 is the persisted record without its
\* email: same version, dailyCalories, days and generatedAt, the same warning
\* when there is one and none when there is none.
C10_ClientViewIsRecordMinusEmail ==
    \A r \in Reqs :
        response[r].status = 200 =>
            \E i \in 1 .. Len(dbFile.menus) :
                LET m == dbFile.menus[i]
                    v == response[r].json
                IN /\ m = menu[r]
                   /\ m.email = req[r].email
                   /\ DOMAIN v = DOMAIN m \ {"email"}
                   /\ v.version = m.version
                   /\ v.dailyCalories = m.dailyCalories
                   /\ v.days = m.days
                   /\ v.generatedAt = m.generatedAt
                   /\ "warning" \in DOMAIN m => v.warning = m.warning

\* C10 witness: a view with a warning and a view without one were returned.
C10_Witness ==
    \E r, q \in Reqs :
        /\ response[r].status = 200 /\ "warning" \in DOMAIN response[r].json
        /\ response[q].status = 200 /\ "warning" \notin DOMAIN response[q].json

\* C11: every client view returned with status 200 by a generate-menu request
\* has an emailStatus field: not_configured when no mail transport is
\* configured, and otherwise sent or failed according to the mail outcome.
C11_EmailStatusReported ==
    \A r \in Reqs :
        response[r].status = 200 =>
            /\ "emailStatus" \in DOMAIN response[r].json
            /\ response[r].json.emailStatus \in {"sent", "failed", "not_configured"}
            /\ (~mailer) => (response[r].json.emailStatus = "not_configured")
            /\ (mail[r].state = "sent") => (response[r].json.emailStatus = "sent")
            /\ (mail[r].state = "failed") => (response[r].json.emailStatus = "failed")

\* ------------------------------------------- the helpers called on their own

\* The request handlers' variables.
handlerVars == <<ai, mailer, now, pc, req, loc, caught, menu, response, mail>>

\* No request has arrived and none arrives.
NoRequests ==
    /\ ai = FALSE
    /\ mailer = FALSE
    /\ now = 0
    /\ pc = [r \in Reqs |-> "idle"]
    /\ req = [r \in Reqs |-> NoBody]
    /\ loc = [r \in Reqs |-> NoLocals]
    /\ caught = [r \in Reqs |-> FALSE]
    /\ menu = [r \in Reqs |-> NoMenu]
    /\ response = [r \in Reqs |-> NoResponse]
    /\ mail = [r \in Reqs |-> NoMail]

\* ---- saveMenu and getNextMenuVersion

\* A menu record as the handler saves it, here without days.
StoredMenu(email, version) ==
    AssembleMenu(email, [days |-> Arr(<<>>), finalVersion |-> version, warning |-> ""],
                 Num(2000), 0)

InitSequencer ==
    /\ NoRequests
    /\ dbFile = NoDbFile
    /\ call = NoCall
    /\ result = NoResult

\* saveMenu(menu)
CallSaveMenu(email, version) ==
    /\ Len(readDb(dbFile).menus) < MaxMenus
    /\ dbFile' = saveMenu(dbFile, StoredMenu(email, version))
    /\ call' = [fn |-> "saveMenu", email |-> email]
    /\ result' = NoResult
    /\ UNCHANGED handlerVars

\* getNextMenuVersion(email); its readDb() creates db.json when it is absent.
CallGetNextMenuVersion(email) ==
    /\ dbFile' = readDbFile(dbFile)
    /\ call' = [fn |-> "getNextMenuVersion", email |-> email]
    /\ result' = [value |-> getNextMenuVersion(dbFile, email)]
    /\ UNCHANGED handlerVars

NextSequencer ==
    \/ \E email \in {UserA, UserB}, v \in 1 .. MaxStoredVersion : CallSaveMenu(email, v)
    \/ \E email \in {UserA, UserB} : CallGetNextMenuVersion(email)

SpecSequencer == InitSequencer /\ [][NextSequencer]_vars

\* The versions of the menus stored for email.
VersionsOf(file, email) ==
    {file.menus[i].version : i \in {j \in 1 .. Len(file.menus) : file.menus[j].email = email}}

\* C12: getNextMenuVersion(email) returns 1 when the store has no menu of
\* that email and otherwise the largest version among that email's menus plus
\* 1, whatever the menus of other users; the call leaves the users and menus
\* of the store as they were, and a call that follows a call for the same email
\* with no save between them returns the same value.
C12_NextVersion ==
    [][\A email \in {UserA, UserB} :
          CallGetNextMenuVersion(email) =>
              LET vs == VersionsOf(dbFile, email)
              IN /\ result'.value = IF vs = {} THEN 1
                                    ELSE (CHOOSE v \in vs : \A w \in vs : w <= v) + 1
                 /\ readDb(dbFile') = readDb(dbFile)
                 /\ (call = call') => (result' = result)]_vars

\* C12 witness: the call returned 2 for a user whose largest version is 1
\* while another user has a menu of a larger version.
C12_Witness ==
    /\ call = [fn |-> "getNextMenuVersion", email |-> UserA]
    /\ result = [value |-> 2]
    /\ VersionsOf(dbFile, UserA) = {1}
    /\ 3 \in VersionsOf(dbFile, UserB)

\* C13: every menu in the store has an ordered sequence of exactly 7 days,
\* whether the provider's reply or the fallback produced it.
C13_SevenDays ==
    \A i \in 1 .. Len(dbFile.menus) :
        /\ dbFile.menus[i].days.t = "array"
        /\ Len(dbFile.menus[i].days.a) = 7

\* A day with a dayIndex in 1..7 and exactly 3 meals, one of each type.
DayWellFormed(d) ==
    LET idx == Get(d, "dayIndex")
        meals == Get(d, "meals")
    IN /\ idx.t = "number" /\ ~IsNaN(idx) /\ idx.n \in 1 .. 7
       /\ meals.t = "array" /\ Len(meals.a) = 3
       /\ \A type \in {"Breakfast", "Lunch", "Dinner"} :
             Cardinality({k \in 1 .. 3 : Get(meals.a[k], "type") = Str(type)}) = 1

\* C14: in every menu in the store, each day has a dayIndex in 1..7 that no
\* other day of the menu has, and exactly 3 meals whose types are Breakfast,
\* Lunch and Dinner, each once.
C14_DaysWellFormed ==
    \A i \in 1 .. Len(dbFile.menus) :
        LET days == dbFile.menus[i].days.a
        IN /\ \A k \in 1 .. Len(days) : DayWellFormed(days[k])
           /\ \A k, l \in 1 .. Len(days) :
                 k # l => Get(days[k], "dayIndex") # Get(days[l], "dayIndex")

\* The server when every provider call settles: a handler that awaits
\* generateContent() is resumed.  Nothing is assumed of the mail sends.
SpecProviderSettles ==
    Spec /\ \A r \in Reqs :
                WF_vars(\E o \in ProviderOutcomes, t \in now .. MaxTime :
                            ProviderSettles(r, o, t))

\* C15: a request given a registered user and a profile is answered: its
\* handler either answers before the provider call or, the call having
\* settled, after it, without waiting for the mail send it started; a response
\* once sent is never replaced or followed by another.
C15_EventuallyOneResponse ==
    /\ \A r \in Reqs : (pc[r] = "awaitAI") ~> (pc[r] = "done" /\ Answered(r))
    /\ [](\A r \in Reqs :
             (pc[r] # "idle" /\ WellFormed(req[r]) /\ Registered(req[r].email))
             => (pc[r] = "awaitAI" \/ Answered(r)))
    /\ [][\A r \in Reqs :
             /\ Answered(r) => (response'[r] = response[r])
             /\ (~Answered(r) /\ response'[r].status # 0)
                => (mail'[r].state \in {"none", "pending"})]_vars

\* C15 witness: a request that awaited the provider has its response while
\* its mail send is still pending.
C15_Witness ==
    \E r \in Reqs : loc[r].set /\ Answered(r) /\ pc[r] = "done" /\ mail[r].state = "pending"

\* ---- approximateAge and calculateDailyCalories

\* The limits the profile form puts on height and weight.
MinHeightCm == 120
MaxHeightCm == 230
MinWeightKg == 30
MaxWeightKg == 250

\* The values of the profile form's selects, with values no select offers, and
\* heights and weights inside and outside the form's limits.
Goals == {Str("Lose weight"), Str("Maintain weight"), Str("Gain weight")}
AgeRanges ==
    {Str("18-24"), Str("25-34"), Str("35-44"), Str("45-54"), Str("55-64"), Str("65+"),
     Str("65-+"), Str("n/a"), Str(""), Undef}
Genders == {Str("Male"), Str("Female"), Str("Other")}
ActivityLevels ==
    {Str("Sedentary - 0 hours/week"), Str("Light - 0-1 hour/week"),
     Str("Moderate - 1-2 hours/week"), Str("Active - 2-4 hours/week"),
     Str("Very Active - 4+ hours/week"), Str("Unknown")}
Heights == {Num(1), Num(MinHeightCm), Num(180), Num(MaxHeightCm)}
Weights == {Num(1), Num(MinWeightKg), Num(80), Num(MaxWeightKg)}

Profiles ==
    {Obj([goal |-> goal, ageRange |-> ageRange, gender |-> gender, heightCm |-> h,
          weightKg |-> w, activityLevel |-> level]) :
        goal \in Goals, ageRange \in AgeRanges, gender \in Genders, h \in Heights,
        w \in Weights, level \in ActivityLevels}

\* One call of one helper is made, with any of the arguments.
InitCalories ==
    /\ NoRequests
    /\ dbFile = NoDbFile
    /\ call = NoCall
    /\ result = NoResult

\* approximateAge(ageRange)
CallApproximateAge(ageRange) ==
    /\ call = NoCall
    /\ call' = [fn |-> "approximateAge", ageRange |-> ageRange]
    /\ result' = approximateAge(ageRange)
    /\ UNCHANGED <<handlerVars, dbFile>>

\* calculateDailyCalories(profile)
CallCalculateDailyCalories(profile) ==
    /\ call = NoCall
    /\ call' = [fn |-> "calculateDailyCalories", profile |-> profile]
    /\ result' = calculateDailyCalories(profile)
    /\ UNCHANGED <<handlerVars, dbFile>>

NextCalories ==
    \/ \E ageRange \in AgeRanges : CallApproximateAge(ageRange)
    \/ \E profile \in Profiles : CallCalculateDailyCalories(profile)

SpecCalories == InitCalories /\ [][NextCalories]_vars

\* C16 as stated: for the profile {goal: Lose weight, ageRange: 25-34, gender:
\* Male, heightCm: 180, weightKg: 80, activityLevel: Moderate - 1-2 hours/week}
\* calculateDailyCalories returns 2270.
C16_ScenarioAReturns2270 ==
    call = [fn |-> "calculateDailyCalories", profile |-> ProfileA]
    => result = [threw |-> FALSE, value |-> Num(2270)]

\* C16 as amended: for that profile calculateDailyCalories returns 2207, the
\* rounding of (10*80 + 6.25*180 - 5*30 + 5) * 1.55 * 0.8 = 1780 * 1.24 = 2207.2.
C16_ScenarioAReturns2207 ==
    call = [fn |-> "calculateDailyCalories", profile |-> ProfileA]
    => result = [threw |-> FALSE, value |-> Num(2207)]

\* C16 witness: calculateDailyCalories has been called with that profile.
C16_Witness ==
    /\ call = [fn |-> "calculateDailyCalories", profile |-> ProfileA]
    /\ result # NoResult

\* C17: for every profile, whatever its goal, age bucket, gender, activity
\* label and numeric height and weight, calculateDailyCalories returns a
\* positive integer.
C17_PositiveCalories ==
    call.fn = "calculateDailyCalories"
    => /\ ~result.threw
       /\ ~IsNaN(result.value)
       /\ result.value.n > 0

\* The age the claim gives each age range of the model.
ClaimedAge(ageRange) ==
    CASE ageRange = Str("18-24") -> 21
      [] ageRange = Str("25-34") -> 30
      [] ageRange = Str("35-44") -> 40
      [] ageRange = Str("45-54") -> 50
      [] ageRange = Str("55-64") -> 60
      [] ageRange = Str("65+") -> 70
      [] ageRange = Str("65-+") -> 70
      [] OTHER -> 30

\* C18: approximateAge resolves an open-ended bucket (the form's 65+) to its
\* lower bound plus 5, a closed bucket a-b to the rounded midpoint of a and b,
\* and an absent or unparsable bucket to 30.
C18_ApproximateAge ==
    call.fn = "approximateAge"
    => result = [threw |-> FALSE, value |-> Num(ClaimedAge(call.ageRange))]

\* C19: a request has a mail send exactly when a mail transport is configured
\* and the request reached the persist step; the send is addressed to the
\* request's email, carries the menu that was persisted (same version and
\* days) and starts only once that menu is in the store; once started it is
\* not started again: it only goes from pending to sent or failed.
C19_MailOncePersisted ==
    /\ [](\A r \in Reqs :
             /\ (mail[r].state # "none") <=> (mailer /\ menu[r] # NoMenu)
             /\ (mail[r].state # "none") =>
                   /\ mail[r].to = req[r].email
                   /\ mail[r].menu = menu[r]
                   /\ \E i \in MenusOf(req[r].email) :
                         /\ dbFile.menus[i].version = mail[r].menu.version
                         /\ dbFile.menus[i].days = mail[r].menu.days)
    /\ [][\A r \in Reqs :
             (mail[r].state # "none") =>
                 /\ mail'[r].to = mail[r].to
                 /\ mail'[r].menu = mail[r].menu
                 /\ mail'[r].state # mail[r].state => mail[r].state = "pending"]_vars

\* C19 witness: with a mailer, the mail of one request was sent and a request
\* that never reached the persist step has no mail.
C19_Witness ==
    /\ mailer
    /\ \E r, q \in Reqs :
          /\ mail[r].state = "sent" /\ Persisted(mail[r].menu)
          /\ pc[q] = "done" /\ menu[q] = NoMenu /\ mail[q].state = "none"

\* C20: the version persisted by a request is the provider's version when the
\* generation succeeded and the parsed payload's version is a number, and the
\* sequencer's version in every other case, the fallback on a payload with a
\* numeric version included.
C20_VersionChoice ==
    [][\A r \in Reqs, o \in ProviderOutcomes, t \in now .. MaxTime :
          ProviderSettles(r, o, t) =>
              LET parsed == extractJsonFromText(o.text)
                  pv == IF o.kind = "resolve" /\ parsed.ok
                        THEN Get(parsed.value, "version") ELSE Undef
                  last == dbFile'.menus[Len(dbFile'.menus)]
              IN /\ last = menu'[r]
                 /\ last.version = IF ~GenerationFails(o) /\ pv.t = "number"
                                   THEN pv.n ELSE loc[r].version]_vars

\* C20 witness: one menu was persisted with the provider's version, which is
\* not the sequencer's, and a fallback menu with the sequencer's version.
C20_Witness ==
    \E r, q \in Reqs :
        /\ menu[r] # NoMenu /\ ~caught[r] /\ menu[r].version # loc[r].version
        /\ Persisted(menu[r])
        /\ menu[q] # NoMenu /\ caught[q] /\ menu[q].version = loc[q].version
        /\ Persisted(menu[q])

\* C21: of a payload that was extracted, only a missing or non-array days
\* forces the fallback: when days is an array, of any length and with entries
\* of any shape, the step persists and returns those days unchanged with no
\* warning; when it is not, the step persists the fallback days with a warning.
C21_OnlyDaysArrayIsChecked ==
    [][\A r \in Reqs, o \in ProviderOutcomes, t \in now .. MaxTime :
          (ProviderSettles(r, o, t) /\ o.kind = "resolve" /\ extractJsonFromText(o.text).ok)
          => LET days == Get(extractJsonFromText(o.text).value, "days")
                 last == dbFile'.menus[Len(dbFile'.menus)]
             IN IF days.t = "array"
                   THEN /\ last.days = days
                        /\ "warning" \notin DOMAIN last
                        /\ response'[r].status = 200
                        /\ response'[r].json.days = days
                        /\ "warning" \notin DOMAIN response'[r].json
                   ELSE /\ last.days = FallbackDays
                        /\ HasWarning(last)]_vars

\* C21 witness: a menu with no day and a menu whose only day has no meals and
\* no shoppingItems are in the store, both without a warning.
C21_Witness ==
    \E i, j \in 1 .. Len(dbFile.menus) :
        /\ dbFile.menus[i].days = Arr(<<>>)
        /\ "warning" \notin DOMAIN dbFile.menus[i]
        /\ dbFile.menus[j].days.t = "array"
        /\ Len(dbFile.menus[j].days.a) = 1
        /\ Get(dbFile.menus[j].days.a[1], "shoppingItems") = Undef
        /\ "warning" \notin DOMAIN dbFile.menus[j]

\* ---- extractJsonFromText

\* The lexemes the generated texts are made of.
Alphabet == {P("{"), P("}"), S("a"), P(":"), N(1), F("fence"), WS, W("prose")}

\* Every text of at most MaxTextLen lexemes, and the provider's replies.
Texts == UNION {[1 .. n -> Alphabet] : n \in 0 .. MaxTextLen} \cup ProviderTexts

\* One call of extractJsonFromText is made, with any of the texts.
InitExtract ==
    /\ NoRequests
    /\ dbFile = NoDbFile
    /\ call = NoCall
    /\ result = NoResult

\* extractJsonFromText(text)
CallExtractJsonFromText(text) ==
    /\ call = NoCall
    /\ call' = [fn |-> "extractJsonFromText", text |-> text]
    /\ result' = extractJsonFromText(text)
    /\ UNCHANGED <<handlerVars, dbFile>>

NextExtract == \E text \in Texts : CallExtractJsonFromText(text)

SpecExtract == InitExtract /\ [][NextExtract]_vars

NotFence(x) == x.k # "fence"

\* The two texts the claim names.
FencedEmptyDaysText ==
    <<F("fence json"), WS, P("{"), S("days"), P(":"), P("["), P("]"), P("}"), WS,
      F("fence")>>
TwoObjectsText ==
    <<W("prefix"), WS, P("{"), S("a"), P(":"), N(1), P("}"), WS, W("suffix"), WS,
      P("{"), S("b"), P(":"), N(2), P("}")>>

\* C22: extractJsonFromText removes the fence markers, then fails when what
\* remains has no opening brace, no closing brace, or its last closing brace
\* is not after its first opening brace; otherwise its result is the parse of
\* exactly the lexemes from the first opening brace through the last closing
\* brace, a failure when they are not valid JSON.  The fenced {"days":[]}
\* yields an object with an empty days array; the text with two separate
\* objects fails.
C22_ExtractFirstToLast ==
    call.fn = "extractJsonFromText" =>
        LET kept == SelectSeq(call.text, NotFence)
            opens == {i \in 1 .. Len(kept) : kept[i] = P("{")}
            closes == {i \in 1 .. Len(kept) : kept[i] = P("}")}
            first == CHOOSE i \in opens : \A j \in opens : i <= j
            last == CHOOSE i \in closes : \A j \in closes : i >= j
        IN /\ IF opens = {} \/ closes = {} \/ last <= first
                 THEN ~result.ok
                 ELSE result = JSONparse(SubSeq(kept, first, last))
           /\ (call.text = FencedEmptyDaysText)
              => (result = [ok |-> TRUE, value |-> Obj([days |-> Arr(<<>>)])])
           /\ (call.text = TwoObjectsText) => ~result.ok

\* C22 witness: the fenced text was extracted, and parsed.
C22_Witness ==
    /\ call = [fn |-> "extractJsonFromText", text |-> FencedEmptyDaysText]
    /\ result.ok

\* ---- calculateDailyCalories on any profile

\* Profiles whose fields are as expected, missing, or of another type.
AnyProfiles ==
    {Obj([goal |-> goal, ageRange |-> ageRange, gender |-> gender, heightCm |-> h,
          weightKg |-> w, activityLevel |-> level]) :
        goal \in {Str("Lose weight"), Undef, Num(0)},
        ageRange \in {Str("25-34"), Str("n/a"), Undef, Null, Num(30)},
        gender \in {Str("Male"), Undef, Num(1)},
        h \in {Num(180), Str("180"), Str("abc"), Undef},
        w \in {Num(80), Str("abc"), Undef},
        level \in {Str("Moderate - 1-2 hours/week"), Undef, Num(3)}}

NextCaloriesAnyProfile == \E profile \in AnyProfiles : CallCalculateDailyCalories(profile)

SpecCaloriesAnyProfile == InitCalories /\ [][NextCaloriesAnyProfile]_vars

\* The profile with each missing or malformed ageRange, heightCm and weightKg
\* replaced by the value that gives its default (age 30, height 170, weight 70).
WithDefaults(profile) ==
    LET ageRange == Get(profile, "ageRange")
        h == Get(profile, "heightCm")
        w == Get(profile, "weightKg")
        numeric(v) == v.t \in {"number", "string"} /\ ~IsNaN(ToNumber(v))
    IN Obj([goal |-> Get(profile, "goal"),
            ageRange |-> IF ageRange.t = "string" THEN ageRange ELSE Undef,
            gender |-> Get(profile, "gender"),
            heightCm |-> IF numeric(h) THEN h ELSE Num(170),
            weightKg |-> IF numeric(w) THEN w ELSE Num(70),
            activityLevel |-> Get(profile, "activityLevel")])

\* C23: calculateDailyCalories has no error outcome: for every profile, with
\* fields missing, non-numeric or of another type, it does not throw, its
\* result is a number and not NaN, and it is the result for the profile with
\* each missing or malformed input replaced by its default.
C23_NoErrorOutcome ==
    call.fn = "calculateDailyCalories" =>
        /\ ~result.threw
        /\ ~IsNaN(result.value)
        /\ result = calculateDailyCalories(WithDefaults(call.profile))

\* The profile with another gender.
WithGender(profile, gender) == Obj([profile.o EXCEPT !.gender = gender])

\* C24: for the weight, height and resolved age of any profile, the basal
\* rate for Male is the one for Female plus 166, and the one for Other, which
\* an unspecified gender gets as well, is the mean of the two, Male minus 83.
C24_GenderOffsets ==
    call.fn = "calculateDailyCalories" =>
        LET w == Get(call.profile, "weightKg").n
            h == Get(call.profile, "heightCm").n
            a == approximateAge(Get(call.profile, "ageRange")).value.n
            male == bmr4(Str("Male"), w, h, a)
            female == bmr4(Str("Female"), w, h, a)
            other == bmr4(Str("Other"), w, h, a)
        IN /\ male - female = 4 * 166
           /\ other = male - 4 * 83
           /\ 2 * other = male + female
           /\ calculateDailyCalories(WithGender(call.profile, Undef))
              = calculateDailyCalories(WithGender(call.profile, Str("Other")))

\* C24 witness: calculateDailyCalories was called for the gender Other with
\* the largest weight and the smallest height.
C24_Witness ==
    /\ call.fn = "calculateDailyCalories"
    /\ Get(call.profile, "gender") = Str("Other")
    /\ Get(call.profile, "weightKg") = Num(MaxWeightKg)
    /\ Get(call.profile, "heightCm") = Num(1)
    /\ ~result.threw

Hash(password) == [bcrypt |-> password]
Compare(password, hash) == hash = Hash(password)

\* Request bodies of POST /api/auth/register and POST /api/auth/login; ""
\* is a missing email or password.
Credentials ==
    {[kind |-> "register", email |-> UserA, password |-> "pw1"],
     [kind |-> "register", email |-> UserA, password |-> "pw2"],
     [kind |-> "register", email |-> UserB, password |-> "pw1"],
     [kind |-> "register", email |-> "", password |-> "pw1"]}

\* A second profile, of the form's values.
ProfileB ==
    Obj([goal |-> Str("Gain weight"), ageRange |-> Str("18-24"), gender |-> Str("Female"),
         heightCm |-> Num(165), weightKg |-> Num(60),
         activityLevel |-> Str("Light - 0-1 hour/week")])

\* Request bodies of PUT /api/profile.  Their heights and weights are numbers,
\* which JSON.stringify and JSON.parse give back as they are.
ProfileBodies ==
    {[kind |-> "profile", email |-> UserA, profile |-> ProfileA],
     [kind |-> "profile", email |-> UserA, profile |-> ProfileB],
     [kind |-> "profile", email |-> UserB, profile |-> ProfileA],
     [kind |-> "profile", email |-> UserA, profile |-> Undef]}

\* res.json({ user: { email, profile } })
UserReply(status, user) ==
    [status |-> status, json |-> [user |-> [email |-> user.email, profile |-> user.profile]]]

\* A request arrives after the requests numbered before it.
Arrives(r) == pc[r] = "idle" /\ (IF r = 1 THEN TRUE ELSE pc[r - 1] # "idle")

\* POST /api/auth/register up to its await of bcrypt.hash.
Register(r, body) ==
    LET missing == body.email = "" \/ body.password = ""
        existing == findUser(dbFile, body.email)
    IN /\ Arrives(r)
       /\ req' = [req EXCEPT ![r] = body]
       /\ dbFile' = IF missing THEN dbFile ELSE readDbFile(dbFile)
       /\ IF missing
             THEN /\ response' = [response EXCEPT
                                     ![r] = ErrorReply(400, "Email and password are required.")]
                  /\ pc' = [pc EXCEPT ![r] = "done"]
          ELSE IF existing # Null
             THEN /\ response' = [response EXCEPT
                                     ![r] = ErrorReply(400, "User with this email already exists.")]
                  /\ pc' = [pc EXCEPT ![r] = "done"]
          ELSE /\ response' = response
               /\ pc' = [pc EXCEPT ![r] = "awaitHash"]
       /\ UNCHANGED <<ai, mailer, now, loc, caught, menu, mail, call, result>>

\* POST /api/auth/register from the hash to its response; t is Date.now().
RegisterHashed(r, t) ==
    LET user == NewUser(req[r].email, Hash(req[r].password), t)
    IN /\ pc[r] = "awaitHash"
       /\ now' = t
       /\ dbFile' = saveUser(dbFile, user)
       /\ response' = [response EXCEPT ![r] = UserReply(201, user)]
       /\ pc' = [pc EXCEPT ![r] = "done"]
       /\ UNCHANGED <<ai, mailer, req, loc, caught, menu, mail, call, result>>

\* user.profile = { goal, ageRange, gender, heightCm: Number(..), weightKg: Number(..),
\* activityLevel }
StoredProfile(profile) ==
    Obj([goal |-> Get(profile, "goal"), ageRange |-> Get(profile, "ageRange"),
         gender |-> Get(profile, "gender"),
         heightCm |-> ToNumber(Get(profile, "heightCm")),
         weightKg |-> ToNumber(Get(profile, "weightKg")),
         activityLevel |-> Get(profile, "activityLevel")])

\* PUT /api/profile: the whole handler, which does not await.
UpdateProfile(r, body) ==
    LET missing == body.email = "" \/ Falsy(body.profile)
        user == findUser(dbFile, body.email)
    IN /\ Arrives(r)
       /\ req' = [req EXCEPT ![r] = body]
       /\ pc' = [pc EXCEPT ![r] = "done"]
       /\ IF missing
             THEN /\ dbFile' = dbFile
                  /\ response' = [response EXCEPT
                                     ![r] = ErrorReply(400, "Email and profile are required.")]
          ELSE IF user = Null
             THEN /\ dbFile' = readDbFile(dbFile)
                  /\ response' = [response EXCEPT ![r] = ErrorReply(404, "User not found.")]
          ELSE LET updated == [user EXCEPT !.profile = StoredProfile(body.profile)]
               IN /\ dbFile' = saveUser(dbFile, updated)
                  /\ response' = [response EXCEPT ![r] = UserReply(200, updated)]
       /\ UNCHANGED <<ai, mailer, now, loc, caught, menu, mail, call, result>>

\* The server receiving register and profile-update requests, in any order
\* and overlapping; user A may be registered from the start.
InitAccounts ==
    /\ NoRequests
    /\ dbFile \in {NoDbFile, DbFile(<<NewUser(UserA, Hash("pw0"), 0)>>, <<>>)}
    /\ call = NoCall
    /\ result = NoResult

NextAccounts ==
    \/ \E r \in Reqs, body \in Credentials : Register(r, body)
    \/ \E r \in Reqs, t \in now .. MaxTime : RegisterHashed(r, t)
    \/ \E r \in Reqs, body \in ProfileBodies : UpdateProfile(r, body)

SpecAccounts == InitAccounts /\ [][NextAccounts]_vars

\* C27: whatever register and profile-update requests were handled, and
\* however they overlapped, the store has at most one user record per email.
C27_OneUserPerEmail ==
    \A i, j \in 1 .. Len(dbFile.users) :
        (i # j) => (dbFile.users[i].email # dbFile.users[j].email)

\* C27 witness: two register requests of one email were both answered with
\* 201 and the store has one record of that email.
C27_Witness ==
    \E r, q \in Reqs :
        /\ r # q
        /\ response[r].status = 201 /\ response[q].status = 201
        /\ req[r].email = req[q].email
        /\ Cardinality({i \in 1 .. Len(dbFile.users) :
                           dbFile.users[i].email = req[r].email}) = 1

\* C28: registration never changes the record of a registered email: at most
\* one register request per email is answered with 201, and no register step
\* changes a user record that is in the store.
C28_RegisterKeepsRecords ==
    /\ [](\A r, q \in Reqs :
             (/\ response[r].status = 201 /\ response[q].status = 201
              /\ req[r].email = req[q].email) => (r = q))
    /\ [][\A r \in Reqs, t \in now .. MaxTime :
             RegisterHashed(r, t)
             => \A i \in 1 .. Len(dbFile.users) : dbFile'.users[i] = dbFile.users[i]]_vars

\* --------------------------------------- the whole server, db.json failing

\* Request bodies of POST /api/auth/login.
LoginBodies ==
    {[kind |-> "login", email |-> UserA, password |-> "pw1"],
     [kind |-> "login", email |-> UserA, password |-> "pw2"],
     [kind |-> "login", email |-> UserB, password |-> "pw1"],
     [kind |-> "login", email |-> "", password |-> "pw1"]}

\* POST /api/auth/login up to its await of bcrypt.compare.
Login(r, body) ==
    LET missing == body.email = "" \/ body.password = ""
        user == findUser(dbFile, body.email)
    IN /\ Arrives(r)
       /\ req' = [req EXCEPT ![r] = body]
       /\ dbFile' = IF missing THEN dbFile ELSE readDbFile(dbFile)
       /\ IF missing
             THEN /\ response' = [response EXCEPT
                                     ![r] = ErrorReply(400, "Email and password are required.")]
                  /\ pc' = [pc EXCEPT ![r] = "done"]
                  /\ loc' = loc
          ELSE IF user = Null
             THEN /\ response' = [response EXCEPT
                                     ![r] = ErrorReply(401, "Invalid email or password.")]
                  /\ pc' = [pc EXCEPT ![r] = "done"]
                  /\ loc' = loc
          ELSE /\ response' = response
               /\ pc' = [pc EXCEPT ![r] = "awaitCompare"]
               /\ loc' = [loc EXCEPT ![r] = [set |-> TRUE, user |-> user]]
       /\ UNCHANGED <<ai, mailer, now, caught, menu, mail, call, result>>

\* POST /api/auth/login from the comparison to its response.
LoginCompared(r) ==
    /\ pc[r] = "awaitCompare"
    /\ response' = [response EXCEPT
                       ![r] = IF Compare(req[r].password, loc[r].user.passwordHash)
                              THEN UserReply(200, loc[r].user)
                              ELSE ErrorReply(401, "Invalid email or password.")]
    /\ pc' = [pc EXCEPT ![r] = "done"]
    /\ UNCHANGED <<ai, mailer, dbFile, now, req, loc, caught, menu, mail, call, result>>

\* GET /api/auth/user?email=...
GetUser(r, email) ==
    LET user == findUser(dbFile, email)
    IN /\ Arrives(r)
       /\ req' = [req EXCEPT ![r] = [kind |-> "user", email |-> email]]
       /\ dbFile' = IF email = "" THEN dbFile ELSE readDbFile(dbFile)
       /\ response' = [response EXCEPT
                          ![r] = IF email = ""
                                    THEN ErrorReply(400, "Email query parameter is required.")
                                 ELSE IF user = Null THEN ErrorReply(404, "User not found.")
                                 ELSE UserReply(200, user)]
       /\ pc' = [pc EXCEPT ![r] = "done"]
       /\ UNCHANGED <<ai, mailer, now, loc, caught, menu, mail, call, result>>

\* Reads of db.json start to fail with an error that is not ENOENT (no
\* permission, too many open files), the file's content staying as it is.
StoreReadFails ==
    /\ dbFile.state = "ok"
    /\ dbFile' = [dbFile EXCEPT !.state = "unreadable"]
    /\ UNCHANGED <<handlerVars, call, result>>

\* Reads of db.json succeed again.
StoreReadRecovers ==
    /\ dbFile.state = "unreadable"
    /\ dbFile' = [dbFile EXCEPT !.state = "ok"]
    /\ UNCHANGED <<handlerVars, call, result>>

\* The server with a provider and without a mailer; user A is registered and
\* has a menu.
InitServer ==
    /\ ai = TRUE
    /\ mailer = FALSE
    /\ dbFile = DbFile(<<NewUser(UserA, Hash("pw1"), 0)>>, <<StoredMenu(UserA, 1)>>)
    /\ now = 0
    /\ pc = [r \in Reqs |-> "idle"]
    /\ req = [r \in Reqs |-> NoBody]
    /\ loc = [r \in Reqs |-> NoLocals]
    /\ caught = [r \in Reqs |-> FALSE]
    /\ menu = [r \in Reqs |-> NoMenu]
    /\ response = [r \in Reqs |-> NoResponse]
    /\ mail = [r \in Reqs |-> NoMail]
    /\ call = NoCall
    /\ result = NoResult

\* Every request of the server, in any order and overlapping, while reads of
\* db.json may fail.
NextServer ==
    \/ \E r \in Reqs, body \in Credentials : Register(r, body)
    \/ \E r \in Reqs, t \in now .. MaxTime : RegisterHashed(r, t)
    \/ \E r \in Reqs, body \in LoginBodies : Login(r, body)
    \/ \E r \in Reqs : LoginCompared(r)
    \/ \E r \in Reqs, email \in {UserA, UserB, ""} : GetUser(r, email)
    \/ \E r \in Reqs, body \in ProfileBodies : UpdateProfile(r, body)
    \/ \E r \in Reqs, body \in GenerateBodies : GenerateRequest(r, body)
    \/ \E r \in Reqs, o \in ProviderOutcomes, t \in now .. MaxTime : ProviderSettles(r, o, t)
    \/ StoreReadFails
    \/ StoreReadRecovers

SpecServer == InitServer /\ [][NextServer]_vars

\* C25: the menu history is append-only: no step of any request (register,
\* login, get user, profile update, generate menu), however the requests
\* overlap and whether or not a read of the store fails, removes or changes a
\* menu record that is in the store.
C25_MenusAppendOnly ==
    [][\A i \in 1 .. Len(dbFile.menus) :
          /\ i <= Len(dbFile'.menus)
          /\ dbFile'.menus[i] = dbFile.menus[i]]_vars

\* --------------------------------------------------------------- the client

\* Largest itemIndex toggleBought is called with.
MaxItemIndex == 2

\* {...v} of an object, a number, a boolean, null or undefined
Spread(v) == IF v.t = "object" THEN v.o ELSE <<>>

\* {...v, [k]: x}
With(v, k, x) ==
    Obj([f \in DOMAIN Spread(v) \cup {k} |-> IF f = k THEN x ELSE Spread(v)[f]])

\* The 'days' of the menus the server answers with: two days; two days with
\* the same dayIndex; a day without shoppingItems and a day without dayIndex
\* whose items are an object that carries 'bought' and a number; a day that is
\* null; a day whose shoppingItems are a number.
ClientDays ==
    {<<Day(1, "Day 1", <<>>, <<Item("Oats", "500 g"), Item("Milk", "1 L")>>),
       Day(2, "Day 2", <<>>, <<Item("Eggs", "6")>>)>>,
     <<Day(1, "Day 1", <<>>, <<Item("Oats", "500 g")>>),
       Day(1, "Day 1 again", <<>>, <<Item("Milk", "1 L"), Item("Eggs", "6")>>)>>,
     <<Obj([dayIndex |-> Num(1), label |-> Str("Monday")]),
       Obj([label |-> Str("Tuesday"),
            shoppingItems |-> Arr(<<Obj([product |-> Str("Rice"), bought |-> Str("yes")]),
                                    Num(5)>>)])>>,
     <<Null>>,
     <<Obj([dayIndex |-> Num(1), shoppingItems |-> Num(5)])>>}

\* What the client's fetchJson gets from POST /api/generate-weekly-menu.
ServerReplies ==
    {ErrorReply(500, "Server error generating weekly menu.")}
    \cup {[status |-> 200,
           json |-> ClientMenu(AssembleMenu(UserA,
                                            [days |-> Arr(days), finalVersion |-> 1,
                                             warning |-> ""],
                                            2207, 0))] : days \in ClientDays}

\* The arguments of toggleBought: the dayIndex of a day, of no day, and of a
\* day that has none.
DayIndexes == {Num(1), Num(2), Num(3), Undef}
ItemIndexes == 0 .. MaxItemIndex

\* day.shoppingItems.map of a day that is null or undefined, or whose
\* shoppingItems are neither falsy nor an array, throws a TypeError.
EnhanceThrows(day) ==
    \/ day.t \in {"undefined", "null"}
    \/ LET s == Get(day, "shoppingItems") IN ~Falsy(s) /\ s.t # "array"

\* ({...day, shoppingItems: (day.shoppingItems || []).map((item) =>
\*   ({...item, bought: false}))})
EnhanceDay(day) ==
    LET s == Get(day, "shoppingItems")
        items == IF Falsy(s) THEN <<>> ELSE s.a
    IN With(day, "shoppingItems",
            Arr([i \in 1 .. Len(items) |-> With(items[i], "bought", Bool(FALSE))]))

\* handleGenerateMenu from the reply on: the menu state after it, m being the
\* menu state before.  fetchJson throws on a reply that is not ok, and the
\* catch leaves the menu as it is.
handleGenerateMenu(m, reply) ==
    IF reply.status # 200 THEN m
    ELSE LET data == reply.json
             days == IF Falsy(data.days) THEN <<>> ELSE data.days.a
         IN IF \E p \in 1 .. Len(days) : EnhanceThrows(days[p]) THEN m
            ELSE [data EXCEPT
                     !.days = Arr([p \in 1 .. Len(days) |-> EnhanceDay(days[p])])]

\* Variant: the item is marked as bought instead of being toggled.
toggleBoughtMarks(m, dayIndex, itemIndex) ==
    IF m = NoResult THEN m
    ELSE LET days == [p \in 1 .. Len(m.days.a) |->
                         LET s == Get(m.days.a[p], "shoppingItems")
                         IN With(m.days.a[p], "shoppingItems",
                                 Arr(IF Falsy(s) THEN <<>> ELSE s.a))]
             found == {p \in 1 .. Len(days) : Get(days[p], "dayIndex") = dayIndex}
         IN IF found = {} THEN m
            ELSE LET dayPos == CHOOSE p \in found : \A q \in found : p <= q
                     items == Get(days[dayPos], "shoppingItems").a
                     i == itemIndex + 1
                 IN IF i \notin 1 .. Len(items) \/ Falsy(items[i]) THEN m
                    ELSE [m EXCEPT
                             !.days =
                                 Arr([days EXCEPT
                                         ![dayPos] =
                                             With(days[dayPos], "shoppingItems",
                                                  Arr([items EXCEPT
                                                          ![i] = With(items[i], "bought",
                                                                      Bool(TRUE))]))])]

\* toggleBought(dayIndex, itemIndex): the menu state after it, m being the
\* menu state before.  findIndex gives the first day whose dayIndex is
\* strictly equal to the argument; itemIndex counts from 0.
toggleBought(m, dayIndex, itemIndex) ==
    IF m = NoResult THEN m
    ELSE LET days == [p \in 1 .. Len(m.days.a) |->
                         LET s == Get(m.days.a[p], "shoppingItems")
                         IN With(m.days.a[p], "shoppingItems",
                                 Arr(IF Falsy(s) THEN <<>> ELSE s.a))]
             found == {p \in 1 .. Len(days) : Get(days[p], "dayIndex") = dayIndex}
         IN IF found = {} THEN m
            ELSE LET dayPos == CHOOSE p \in found : \A q \in found : p <= q
                     items == Get(days[dayPos], "shoppingItems").a
                     i == itemIndex + 1
                 IN IF i \notin 1 .. Len(items) \/ Falsy(items[i]) THEN m
                    ELSE [m EXCEPT
                             !.days =
                                 Arr([days EXCEPT
                                         ![dayPos] =
                                             With(days[dayPos], "shoppingItems",
                                                  Arr([items EXCEPT
                                                          ![i] = With(items[i], "bought",
                                                                      Bool(Falsy(Get(items[i],
                                                                                     "bought"))))]))])]

\* The client has no menu; the server's variables play no part.
InitClient ==
    /\ NoRequests
    /\ dbFile = NoDbFile
    /\ call = NoCall
    /\ result = NoResult

\* handleGenerateMenu gets its reply; result is the client's menu state.
CallHandleGenerateMenu(reply) ==
    /\ call' = [fn |-> "handleGenerateMenu"]
    /\ result' = handleGenerateMenu(result, reply)
    /\ UNCHANGED <<handlerVars, dbFile>>

\* handleLogout: setMenu(null)
CallHandleLogout ==
    /\ call' = [fn |-> "handleLogout"]
    /\ result' = NoResult
    /\ UNCHANGED <<handlerVars, dbFile>>

\* toggleBought(dayIndex, itemIndex); call keeps the menu state it was
\* called in.
CallToggleBought(dayIndex, itemIndex) ==
    /\ call' = [fn |-> "toggleBought", dayIndex |-> dayIndex, itemIndex |-> itemIndex,
                menu |-> result]
    /\ result' = toggleBought(result, dayIndex, itemIndex)
    /\ UNCHANGED <<handlerVars, dbFile>>

NextClient ==
    \/ \E reply \in ServerReplies : CallHandleGenerateMenu(reply)
    \/ CallHandleLogout
    \/ \E dayIndex \in DayIndexes, itemIndex \in ItemIndexes :
           CallToggleBought(dayIndex, itemIndex)

SpecClient == InitClient /\ [][NextClient]_vars

\* The shopping items of day p of a client menu.
ItemsAt(m, p) == m.days.a[p].o.shoppingItems.a

\* The position of the first day of m with that dayIndex, 0 when there is none.
Addressed(m, dayIndex) ==
    LET found == {p \in 1 .. Len(m.days.a) : Get(m.days.a[p], "dayIndex") = dayIndex}
    IN IF found = {} THEN 0 ELSE CHOOSE p \in found : \A q \in found : p <= q

\* x and y have the same fields and agree on all of them but k.
SameBut(x, y, k) == DOMAIN x = DOMAIN y /\ \A f \in DOMAIN x \ {k} : x[f] = y[f]

\* C30: toggleBought(dayIndex, itemIndex) negates the 'bought' flag of item
\* itemIndex of the (first) day with that dayIndex and leaves every other item,
\* every other field of that item, every other day and every other field of the
\* menu as they were; a second call with the same arguments gives the menu
\* back; and the menu stays as it is when there is no menu, no day with that
\* dayIndex, or no item at that index in that day.
C30_ToggleBought ==
    call.fn = "toggleBought" =>
        LET before == call.menu
            after == result
            i == call.itemIndex + 1
        IN /\ IF before = NoResult THEN after = NoResult
              ELSE LET p == Addressed(before, call.dayIndex)
                   IN IF p = 0 \/ i \notin 1 .. Len(ItemsAt(before, p))
                         THEN after = before
                      ELSE /\ SameBut(after, before, "days")
                           /\ Len(after.days.a) = Len(before.days.a)
                           /\ \A q \in 1 .. Len(before.days.a) :
                                 /\ SameBut(after.days.a[q].o, before.days.a[q].o,
                                            "shoppingItems")
                                 /\ Len(ItemsAt(after, q)) = Len(ItemsAt(before, q))
                                 /\ \A j \in 1 .. Len(ItemsAt(before, q)) :
                                       IF q = p /\ j = i
                                          THEN /\ SameBut(ItemsAt(after, q)[j].o,
                                                          ItemsAt(before, q)[j].o, "bought")
                                               /\ ItemsAt(after, q)[j].o.bought.b
                                                    = ~ItemsAt(before, q)[j].o.bought.b
                                       ELSE ItemsAt(after, q)[j] = ItemsAt(before, q)[j]
           /\ toggleBought(after, call.dayIndex, call.itemIndex) = before

\* C30 witness: a call has set an item back to not bought in a menu in which
\* another item is bought.
C30_Witness ==
    /\ call.fn = "toggleBought"
    /\ call.menu # NoResult
    /\ result # call.menu
    /\ \E p \in 1 .. Len(result.days.a) :
          \E j \in 1 .. Len(ItemsAt(result, p)) :
              /\ ~ItemsAt(result, p)[j].o.bought.b
              /\ ItemsAt(call.menu, p)[j].o.bought.b
    /\ \E p \in 1 .. Len(result.days.a) :
          \E j \in 1 .. Len(ItemsAt(result, p)) : ItemsAt(result, p)[j].o.bought.b

====
